---- MODULE Spec2Model ----
(***************************************************************************)
(* A model of the PE view layer of susy-object (src/src/pe.rs): the        *)
(* segment, section and symbol views over a parsed PE image.               *)
(*                                                                         *)
(* Encoding.  Option<T> is a sequence of length 0 (None) or 1 (Some(x)).   *)
(* A slice::Iter is the sequence of the elements it has not yet yielded.   *)
(* A reference to a section table entry (&SectionTable) is the 1-based     *)
(* position of the entry in pe.sections.                                   *)
(***************************************************************************)
EXTENDS Integers, Sequences, FiniteSets, TLC

VARIABLES
    file,        \* the PeFile: [pe |-> the parsed PE, data |-> the byte buffer]
    symIter,     \* Option<PeSymbolIterator>: the symbol iterator in use
    symOrigin,   \* which call made symIter: "none", "symbols", "dynamic_symbols"
    returned,    \* what each next() on symIter returned, oldest first
    consumed,    \* per next(): the table entry it took, <<"export"|"import"|"none", pos>>
    symbolMap,   \* Option<SymbolMap>: the result of the last symbol_map()
    segIter,     \* Option<PeSegmentIterator>: the segment iterator in use
    segReturned, \* what each next() on segIter returned, oldest first
    segPrev,     \* Option: the segments of the last iteration that ran to its end
    secIter,     \* Option<PeSectionIterator>: the section iterator in use
    secReturned, \* what each next() on secIter returned, oldest first
    secPrev,     \* Option: the sections of the last iteration that ran to its end
    query        \* the last accessor call and its result

vars == <<file, symIter, symOrigin, returned, consumed, symbolMap,
          segIter, segReturned, segPrev, secIter, secReturned, secPrev, query>>

symVars == <<symIter, symOrigin, returned, consumed, symbolMap>>
secVars == <<segIter, segReturned, segPrev, secIter, secReturned, secPrev>>

---------------------------------------------------------------------------
(* Bounds of the model. *)

\* The longest export table and the longest import table.
MaxExports == 2
MaxImports == 2
\* How many times next() is called on an iterator that has returned None.
MaxExtraNext == 2
\* The longest section table.
MaxSections == 3
\* The largest virtual_size and size_of_raw_data of a section whose data is read.
MaxRawSize == 3
\* The largest small address and length asked of data_range.
MaxReqAddr == 7
MaxReqLen == 4
\* The largest value of a u64, scaled down; also asked of data_range.
MaxU64 == 255

---------------------------------------------------------------------------
(* Option and slice iterators (core library), as the code uses them. *)

None == <<>>
Some(x) == <<x>>
IsSome(o) == Len(o) = 1
Unwrap(o) == o[1]

\* slice::Iter::next: the first element not yet yielded, and the rest.
SliceIter_next(rest) ==
    IF rest = <<>>
    THEN [item |-> None, rest |-> <<>>]
    ELSE [item |-> Some(Head(rest)), rest |-> Tail(rest)]

---------------------------------------------------------------------------
(* The symbol view. *)

\* Export.rva (usize) `as u64`: a zero extension, which keeps the value.
WidenU64(x) == x

\* pe.rs:363-366: only a borrowed import name is surfaced.
ImportSymbolName(name) ==
    IF name.cow = "Borrowed" THEN Some(name.str) ELSE None

\* pe.rs:348-357: the Symbol built for an export.
ExportSymbol(export) ==
    [kind |-> "Unknown", section_index |-> None, undefined |-> FALSE,
     global |-> TRUE, name |-> export.name, address |-> WidenU64(export.rva),
     size |-> 0]

\* pe.rs:369-377: the Symbol built for an import.
ImportSymbol(import) ==
    [kind |-> "Unknown", section_index |-> None, undefined |-> TRUE,
     global |-> TRUE, name |-> ImportSymbolName(import.name), address |-> 0,
     size |-> 0]

\* Mutants of PeSymbolIterator::next.
PeSymbolIterator_next_ImportsFirst(it) ==
    LET i == SliceIter_next(it.imports)
        e == SliceIter_next(it.exports)
    IN  IF IsSome(i.item)
        THEN [iter |-> [it EXCEPT !.index = @ + 1, !.imports = i.rest],
              ret  |-> Some(<<it.index, ImportSymbol(Unwrap(i.item))>>)]
        ELSE IF IsSome(e.item)
        THEN [iter |-> [it EXCEPT !.index = @ + 1, !.exports = e.rest],
              ret  |-> Some(<<it.index, ExportSymbol(Unwrap(e.item))>>)]
        ELSE [iter |-> it, ret |-> None]

PeSymbolIterator_next_ImportIndexRestarts(it) ==
    LET e == SliceIter_next(it.exports)
        i == SliceIter_next(it.imports)
    IN  IF IsSome(e.item)
        THEN [iter |-> [it EXCEPT !.index = @ + 1, !.exports = e.rest],
              ret  |-> Some(<<it.index, ExportSymbol(Unwrap(e.item))>>)]
        ELSE IF IsSome(i.item)
        THEN [iter |-> [it EXCEPT !.index = 1, !.imports = i.rest],
              ret  |-> Some(<<0, ImportSymbol(Unwrap(i.item))>>)]
        ELSE [iter |-> it, ret |-> None]

PeSymbolIterator_next_OwnedNameKept(it) ==
    LET e == SliceIter_next(it.exports)
        i == SliceIter_next(it.imports)
    IN  IF IsSome(e.item)
        THEN [iter |-> [it EXCEPT !.index = @ + 1, !.exports = e.rest],
              ret  |-> Some(<<it.index, ExportSymbol(Unwrap(e.item))>>)]
        ELSE IF IsSome(i.item)
        THEN [iter |-> [it EXCEPT !.index = @ + 1, !.imports = i.rest],
              ret  |-> Some(<<it.index,
                              [ImportSymbol(Unwrap(i.item)) EXCEPT
                                  !.name = Some(Unwrap(i.item).name.str)]>>)]
        ELSE [iter |-> it, ret |-> None]

\* pe.rs:342-381: PeSymbolIterator::next.  The result is the iterator after
\* the call and the value returned.
PeSymbolIterator_next(it) ==
    LET e == SliceIter_next(it.exports)
        i == SliceIter_next(it.imports)
    IN  IF IsSome(e.item)
        THEN [iter |-> [it EXCEPT !.index = @ + 1, !.exports = e.rest],
              ret  |-> Some(<<it.index, ExportSymbol(Unwrap(e.item))>>)]
        ELSE IF IsSome(i.item)
        THEN [iter |-> [it EXCEPT !.index = @ + 1, !.imports = i.rest],
              ret  |-> Some(<<it.index, ImportSymbol(Unwrap(i.item))>>)]
        ELSE [iter |-> it, ret |-> None]

\* Mutant of PeFile::symbols: the static symbols taken from the export and
\* import tables.
PeFile_symbols_FromTables(f) ==
    [index |-> 0, exports |-> f.pe.exports, imports |-> f.pe.imports]

\* pe.rs:153-160: PeFile::symbols, an iterator over two empty slices.
PeFile_symbols(f) ==
    [index |-> 0, exports |-> <<>>, imports |-> <<>>]

\* pe.rs:162-168: PeFile::dynamic_symbols.
PeFile_dynamic_symbols(f) ==
    [index |-> 0, exports |-> f.pe.exports, imports |-> f.pe.imports]

\* Iterator::collect over a PeSymbolIterator mapped by |(_, s)| s: next()
\* until it returns None.
RECURSIVE CollectSymbols(_)
CollectSymbols(it) ==
    LET r == PeSymbolIterator_next(it)
    IN  IF IsSome(r.ret)
        THEN <<Unwrap(r.ret)[2]>> \o CollectSymbols(r.iter)
        ELSE <<>>

\* SymbolMap::filter, the framework's shared filter: a nonempty name and a
\* nonzero address.
SymbolMap_filter(s) ==
    /\ IsSome(s.name)
    /\ Unwrap(s.name) # ""
    /\ s.address # 0

\* Iterator::filter(SymbolMap::filter) over the collected symbols.
RECURSIVE FilterSymbols(_)
FilterSymbols(s) ==
    IF s = <<>> THEN <<>>
    ELSE IF SymbolMap_filter(Head(s)) THEN <<Head(s)>> \o FilterSymbols(Tail(s))
    ELSE FilterSymbols(Tail(s))

\* Stable insertion of x into a sequence sorted by address.
RECURSIVE InsertByAddress(_, _)
InsertByAddress(x, s) ==
    IF s = <<>> THEN <<x>>
    ELSE IF Head(s).address <= x.address
    THEN <<Head(s)>> \o InsertByAddress(x, Tail(s))
    ELSE <<x>> \o s

\* slice::sort_by_key(|x| x.address): a stable sort by address.
RECURSIVE SortByAddress(_)
SortByAddress(s) ==
    IF s = <<>> THEN <<>>
    ELSE InsertByAddress(s[Len(s)], SortByAddress(SubSeq(s, 1, Len(s) - 1)))

\* pe.rs:170-179: PeFile::symbol_map.
PeFile_symbol_map(f) ==
    [symbols |->
        SortByAddress(FilterSymbols(CollectSymbols(PeFile_symbols(f))))]

---------------------------------------------------------------------------
(* The image handle. *)

DefaultSectionAlignment == 4096

\* u64::from(u32): a zero extension, which keeps the value.
WidenU32(x) == x

\* pe.rs:95-103: PeFile::section_alignment.
PeFile_section_alignment(f) ==
    IF IsSome(f.pe.optional_header)
    THEN WidenU32(Unwrap(f.pe.optional_header).section_alignment)
    ELSE WidenU32(DefaultSectionAlignment)

\* The references a slice iterator over pe.sections yields, in table order.
SectionRefs(f) == [i \in 1..Len(f.pe.sections) |-> i]

\* pe.rs:125-130: PeFile::segments.
PeFile_segments(f) == [iter |-> SectionRefs(f)]

\* pe.rs:141-146: PeFile::sections; enumerate() counts from 0.
PeFile_sections(f) == [iter |-> SectionRefs(f), count |-> 0]

---------------------------------------------------------------------------
(* The segment view. *)

\* pe.rs:208-213: PeSegmentIterator::next.
PeSegmentIterator_next(it) ==
    LET r == SliceIter_next(it.iter)
    IN  IF IsSome(r.item)
        THEN [iter |-> [iter |-> r.rest], ret |-> Some([section |-> Unwrap(r.item)])]
        ELSE [iter |-> it, ret |-> None]

\* pe.rs:218-220: PeSegment::address.
PeSegment_address(f, seg) == WidenU32(f.pe.sections[seg.section].virtual_address)

\* Mutant of PeSegment::size: the raw size in place of the virtual size.
PeSegment_size_Raw(f, seg) == WidenU32(f.pe.sections[seg.section].size_of_raw_data)

\* pe.rs:223-225: PeSegment::size.
PeSegment_size(f, seg) == WidenU32(f.pe.sections[seg.section].virtual_size)

\* pe.rs:228-230: PeSegment::align.
PeSegment_align(f, seg) == PeFile_section_alignment(f)

\* cmp::min.
Min(a, b) == IF a <= b THEN a ELSE b

\* The outcome of an expression that may panic.
Panic == [panic |-> TRUE, value |-> <<>>]
Ok(v) == [panic |-> FALSE, value |-> v]

\* &data[offset..][..size]: each of the two slicings panics when out of range.
SliceFromTo(data, offset, size) ==
    IF offset > Len(data)
    THEN Panic
    ELSE LET tail == SubSeq(data, offset + 1, Len(data))
         IN  IF size > Len(tail) THEN Panic ELSE Ok(SubSeq(tail, 1, size))

\* Mutant of PeSegment::data: the virtual size taken without the trim.
PeSegment_data_Untrimmed(f, seg) ==
    LET s == f.pe.sections[seg.section]
    IN  SliceFromTo(f.data, s.pointer_to_raw_data, s.virtual_size)

\* pe.rs:232-236: PeSegment::data.
PeSegment_data(f, seg) ==
    LET s == f.pe.sections[seg.section]
        offset == s.pointer_to_raw_data
        size == Min(s.virtual_size, s.size_of_raw_data)
    IN  SliceFromTo(f.data, offset, size)

\* crate::data_range, the shared address-range helper (spec section 4.5):
\* b[addr-base .. addr-base+len] iff addr >= base and addr+len <= base+b.len(),
\* the subtractions done after the comparisons.
data_range(b, base, addr, len) ==
    IF /\ addr >= base
       /\ addr - base <= Len(b)
       /\ len <= Len(b) - (addr - base)
    THEN Some(SubSeq(b, addr - base + 1, addr - base + len))
    ELSE None

\* The values crate::data_range computes on the way (spec section 4.5).
data_range_computed(b, base, addr, len) ==
    IF addr < base THEN {}
    ELSE IF addr - base > Len(b) THEN {addr - base}
    ELSE {addr - base, Len(b) - (addr - base)} \cup
         (IF len <= Len(b) - (addr - base) THEN {addr - base + len} ELSE {})

\* pe.rs:238-240: PeSegment::data_range.
PeSegment_data_range(f, seg, address, size) ==
    LET d == PeSegment_data(f, seg)
    IN  IF d.panic THEN Panic
        ELSE Ok(data_range(d.value, PeSegment_address(f, seg), address, size))

\* pe.rs:243-245: PeSegment::name; Result::ok drops a decoding error.
PeSegment_name(f, seg) ==
    LET n == f.pe.sections[seg.section].name
    IN  IF n.ok THEN Some(n.str) ELSE None

---------------------------------------------------------------------------
(* The section view. *)

\* Mutant of PeSectionIterator::next: the index counted from 1.
PeSectionIterator_next_OneBased(it) ==
    LET r == SliceIter_next(it.iter)
    IN  IF IsSome(r.item)
        THEN [iter |-> [iter |-> r.rest, count |-> it.count + 1],
              ret  |-> Some([index |-> it.count + 1, section |-> Unwrap(r.item)])]
        ELSE [iter |-> it, ret |-> None]

\* pe.rs:251-257: PeSectionIterator::next over Enumerate<slice::Iter>.
PeSectionIterator_next(it) ==
    LET r == SliceIter_next(it.iter)
    IN  IF IsSome(r.item)
        THEN [iter |-> [iter |-> r.rest, count |-> it.count + 1],
              ret  |-> Some([index |-> it.count, section |-> Unwrap(r.item)])]
        ELSE [iter |-> it, ret |-> None]

\* pe.rs:261-265: PeSection::raw_data.
PeSection_raw_data(f, sec) ==
    LET s == f.pe.sections[sec.section]
        offset == s.pointer_to_raw_data
        size == Min(s.virtual_size, s.size_of_raw_data)
    IN  SliceFromTo(f.data, offset, size)

\* pe.rs:272-274: PeSection::index.
PeSection_index(f, sec) == sec.index

\* pe.rs:277-279: PeSection::address.
PeSection_address(f, sec) == WidenU32(f.pe.sections[sec.section].virtual_address)

\* pe.rs:282-284: PeSection::size.
PeSection_size(f, sec) == WidenU32(f.pe.sections[sec.section].virtual_size)

\* pe.rs:287-289: PeSection::align.
PeSection_align(f, sec) == PeFile_section_alignment(f)

\* pe.rs:291-293: PeSection::data, a borrowed Cow of raw_data().
PeSection_data(f, sec) ==
    LET d == PeSection_raw_data(f, sec)
    IN  IF d.panic THEN Panic ELSE Ok([cow |-> "Borrowed", bytes |-> d.value])

\* Mutant of PeSection::data_range: the file offset taken for the base address.
PeSection_data_range_FileOffsetBase(f, sec, address, size) ==
    LET d == PeSection_raw_data(f, sec)
    IN  IF d.panic THEN Panic
        ELSE Ok(data_range(d.value, f.pe.sections[sec.section].pointer_to_raw_data,
                           address, size))

\* pe.rs:295-297: PeSection::data_range.
PeSection_data_range(f, sec, address, size) ==
    LET d == PeSection_raw_data(f, sec)
    IN  IF d.panic THEN Panic
        ELSE Ok(data_range(d.value, PeSection_address(f, sec), address, size))

\* pe.rs:300-303: PeSection::uncompressed_data.
PeSection_uncompressed_data(f, sec) == PeSection_data(f, sec)

\* Mutant of PeSection::name: an undecodable name read as the empty string.
PeSection_name_Lossy(f, sec) ==
    Some(f.pe.sections[sec.section].name.str)

\* pe.rs:305-307: PeSection::name; Result::ok drops a decoding error.
PeSection_name(f, sec) ==
    LET n == f.pe.sections[sec.section].name
    IN  IF n.ok THEN Some(n.str) ELSE None

\* The bits of a section's characteristics tested by kind().
IMAGE_SCN_CNT_CODE == 32
IMAGE_SCN_CNT_INITIALIZED_DATA == 64
IMAGE_SCN_CNT_UNINITIALIZED_DATA == 128
IMAGE_SCN_MEM_EXECUTE == 536870912

\* u32 & u32.
RECURSIVE BitAnd(_, _)
BitAnd(a, b) ==
    IF a = 0 \/ b = 0 THEN 0
    ELSE (a % 2) * (b % 2) + 2 * BitAnd(a \div 2, b \div 2)

\* u32 | u32.
RECURSIVE BitOr(_, _)
BitOr(a, b) ==
    IF a = 0 THEN b
    ELSE IF b = 0 THEN a
    ELSE (IF a % 2 = 1 \/ b % 2 = 1 THEN 1 ELSE 0) + 2 * BitOr(a \div 2, b \div 2)

\* Mutant of PeSection::kind: the data bit tested before the code bits.
PeSection_kind_DataFirst(f, sec) ==
    LET c == f.pe.sections[sec.section].characteristics
    IN  IF BitAnd(c, IMAGE_SCN_CNT_INITIALIZED_DATA) # 0 THEN "Data"
        ELSE IF BitAnd(c, BitOr(IMAGE_SCN_CNT_CODE, IMAGE_SCN_MEM_EXECUTE)) # 0
        THEN "Text"
        ELSE IF BitAnd(c, IMAGE_SCN_CNT_UNINITIALIZED_DATA) # 0
        THEN "UninitializedData"
        ELSE "Unknown"

\* pe.rs:315-332: PeSection::kind.
PeSection_kind(f, sec) ==
    LET c == f.pe.sections[sec.section].characteristics
    IN  IF BitAnd(c, BitOr(IMAGE_SCN_CNT_CODE, IMAGE_SCN_MEM_EXECUTE)) # 0
        THEN "Text"
        ELSE IF BitAnd(c, IMAGE_SCN_CNT_INITIALIZED_DATA) # 0 THEN "Data"
        ELSE IF BitAnd(c, IMAGE_SCN_CNT_UNINITIALIZED_DATA) # 0
        THEN "UninitializedData"
        ELSE "Unknown"

\* Iterator::find over a PeSectionIterator, the predicate being
\* |section| section.name() == Some(section_name).
RECURSIVE FindSectionByName(_, _, _)
FindSectionByName(f, it, section_name) ==
    LET r == PeSectionIterator_next(it)
    IN  IF ~IsSome(r.ret) THEN None
        ELSE IF PeSection_name(f, Unwrap(r.ret)) = Some(section_name) THEN r.ret
        ELSE FindSectionByName(f, r.iter, section_name)

\* Iterator::find over a PeSectionIterator, the predicate being
\* |section| section.index() == index.
RECURSIVE FindSectionByIndex(_, _, _)
FindSectionByIndex(f, it, index) ==
    LET r == PeSectionIterator_next(it)
    IN  IF ~IsSome(r.ret) THEN None
        ELSE IF PeSection_index(f, Unwrap(r.ret)) = index THEN r.ret
        ELSE FindSectionByIndex(f, r.iter, index)

\* pe.rs:132-135: PeFile::section_by_name.
PeFile_section_by_name(f, section_name) ==
    FindSectionByName(f, PeFile_sections(f), section_name)

\* pe.rs:137-139: PeFile::section_by_index.
PeFile_section_by_index(f, index) ==
    FindSectionByIndex(f, PeFile_sections(f), index)

\* Iterator::nth on sections(): n calls to next() dropped, the next returned.
RECURSIVE SectionsNth(_, _)
SectionsNth(it, n) ==
    LET r == PeSectionIterator_next(it)
    IN  IF ~IsSome(r.ret) THEN None
        ELSE IF n = 0 THEN r.ret
        ELSE SectionsNth(r.iter, n - 1)

\* Iterator::nth on segments().
RECURSIVE SegmentsNth(_, _)
SegmentsNth(it, n) ==
    LET r == PeSegmentIterator_next(it)
    IN  IF ~IsSome(r.ret) THEN None
        ELSE IF n = 0 THEN r.ret
        ELSE SegmentsNth(r.iter, n - 1)

---------------------------------------------------------------------------
(* The images the model is run on. *)

\* All sequences over S of length at most n.
SeqsUpTo(S, n) == UNION {[1..k -> S] : k \in 0..n}

\* The image buffer: bytes that differ, so that a slice tells its offset.
Buffer == <<17, 18, 19, 20, 21, 22>>

\* A name as SectionTable::name() returns it: decoded text, or an error.
NameOk(str) == [ok |-> TRUE, str |-> str]
NameErr == [ok |-> FALSE, str |-> ""]

\* A .text section held by the images whose sections are not under study.
TextSection ==
    [name |-> NameOk(".text"), virtual_address |-> 4096, virtual_size |-> 2,
     pointer_to_raw_data |-> 0, size_of_raw_data |-> 4,
     characteristics |-> 536870944]

ExportPool ==
    {[name |-> Some("Foo"), rva |-> 8192], [name |-> Some("Bar"), rva |-> 8208],
     [name |-> None, rva |-> 8224], [name |-> Some(""), rva |-> 0]}

ImportPool ==
    {[name |-> [cow |-> "Borrowed", str |-> "Baz"]],
     [name |-> [cow |-> "Owned", str |-> "ORDINAL 1"]],
     [name |-> [cow |-> "Borrowed", str |-> ""]]}

MakeFile(sections, exports, imports, optional_header) ==
    [pe |-> [sections |-> sections, exports |-> exports, imports |-> imports,
             optional_header |-> optional_header],
     data |-> Buffer]

NoQuery == [op |-> "none", arg |-> <<>>, ret |-> <<>>]

InitViews ==
    /\ symIter = None
    /\ symOrigin = "none"
    /\ returned = <<>>
    /\ consumed = <<>>
    /\ symbolMap = None
    /\ segIter = None
    /\ segReturned = <<>>
    /\ segPrev = None
    /\ secIter = None
    /\ secReturned = <<>>
    /\ secPrev = None
    /\ query = NoQuery

---------------------------------------------------------------------------
(* The symbol operations. *)

InitSym ==
    /\ file \in {MakeFile(<<TextSection>>, e, i, None) :
                    e \in SeqsUpTo(ExportPool, MaxExports),
                    i \in SeqsUpTo(ImportPool, MaxImports)}
    /\ InitViews

\* let it = file.symbols();
Symbols ==
    /\ symIter' = Some(PeFile_symbols(file))
    /\ symOrigin' = "symbols"
    /\ returned' = <<>>
    /\ consumed' = <<>>
    /\ UNCHANGED <<file, symbolMap, secVars, query>>

\* let it = file.dynamic_symbols();
DynamicSymbols ==
    /\ symIter' = Some(PeFile_dynamic_symbols(file))
    /\ symOrigin' = "dynamic_symbols"
    /\ returned' = <<>>
    /\ consumed' = <<>>
    /\ UNCHANGED <<file, symbolMap, secVars, query>>

\* The table entry a next() took, read off the two slice iterators.
Taken(f, before, after) ==
    IF Len(after.exports) < Len(before.exports)
    THEN <<"export", Len(f.pe.exports) - Len(before.exports) + 1>>
    ELSE IF Len(after.imports) < Len(before.imports)
    THEN <<"import", Len(f.pe.imports) - Len(before.imports) + 1>>
    ELSE <<"none", 0>>

\* it.next();
SymNext ==
    /\ IsSome(symIter)
    /\ Len(returned) < Len(file.pe.exports) + Len(file.pe.imports) + MaxExtraNext
    /\ LET r == PeSymbolIterator_next(Unwrap(symIter))
       IN  /\ symIter' = Some(r.iter)
           /\ returned' = Append(returned, r.ret)
           /\ consumed' = Append(consumed, Taken(file, Unwrap(symIter), r.iter))
    /\ UNCHANGED <<file, symOrigin, symbolMap, secVars, query>>

\* let map = file.symbol_map();
SymbolMap ==
    /\ symbolMap' = Some(PeFile_symbol_map(file))
    /\ UNCHANGED <<file, symIter, symOrigin, returned, consumed, secVars, query>>

NextSym == Symbols \/ DynamicSymbols \/ SymNext \/ SymbolMap

SpecSym == InitSym /\ [][NextSym]_vars

---------------------------------------------------------------------------
(* Claims about the symbol view. *)

NumExports == Len(file.pe.exports)
NumImports == Len(file.pe.imports)

\* The symbols emitted so far: what next() returned, the Nones left out.
Emitted == SelectSeq(returned, IsSome)

\* The iterator's phase, read off its two input streams.
Phase(it) ==
    IF it.exports # <<>> THEN 0      \* EmittingExports
    ELSE IF it.imports # <<>> THEN 1 \* EmittingImports
    ELSE 2                           \* Done

\* The table entry the k-th next() of a dynamic_symbols() iteration takes.
TakenInOrder(k) ==
    IF k <= NumExports THEN <<"export", k>>
    ELSE IF k <= NumExports + NumImports THEN <<"import", k - NumExports>>
    ELSE <<"none", 0>>

C1_Order ==
    symOrigin = "dynamic_symbols" =>
        /\ \A k \in 1..Len(returned) :
              /\ consumed[k] = TakenInOrder(k)
              /\ IsSome(returned[k]) <=> k <= NumExports + NumImports
        /\ \A j, k \in 1..Len(consumed) :
              (j < k /\ consumed[j][1] = "import") => consumed[k][1] # "export"
        /\ Len(Emitted) <= NumExports + NumImports
        /\ (Len(returned) > Len(Emitted)) => Len(Emitted) = NumExports + NumImports

C1_Step ==
    (symOrigin = "dynamic_symbols" /\ Len(returned') = Len(returned) + 1) =>
        /\ Phase(Unwrap(symIter')) >= Phase(Unwrap(symIter))
        /\ (returned # <<>> /\ returned[Len(returned)] = None) =>
              returned'[Len(returned')] = None

\* C1: on a dynamic_symbols() iterator next() moves only forward through
\* EmittingExports -> EmittingImports -> Done: it emits every export in table
\* order, then every import in table order, never an export after an import,
\* exactly E+I symbols, and once it has returned none it returns none again.
C1_ExportsThenImportsThenDone == [](C1_Order) /\ [][C1_Step]_vars

C1_Witness ==
    /\ symOrigin = "dynamic_symbols"
    /\ NumExports >= 2
    /\ NumImports >= 1
    /\ Len(Emitted) = NumExports + NumImports
    /\ Len(returned) >= Len(Emitted) + 2

\* C2: across one dynamic_symbols() iteration the k-th emitted symbol, k
\* counted from 0, carries SymbolIndex k.
C2_DenseIndices ==
    symOrigin = "dynamic_symbols" =>
        \A k \in 1..Len(Emitted) : Unwrap(Emitted[k])[1] = k - 1

C2_Witness ==
    /\ symOrigin = "dynamic_symbols"
    /\ NumExports >= 1
    /\ NumImports >= 2
    /\ Len(Emitted) = NumExports + NumImports

\* C3: every symbol emitted by dynamic_symbols() has kind Unknown, no section
\* index, global set and size 0; for an export undefined is false, the name is
\* the export's (possibly absent) name and the address its rva; for an import
\* undefined is true, the address is 0, and the name is the import's name when
\* that name is borrowed and absent when it is owned.
C3_SymbolFields ==
    symOrigin = "dynamic_symbols" =>
        \A k \in 1..Len(returned) :
            IsSome(returned[k]) =>
                LET sym == Unwrap(returned[k])[2]
                    src == consumed[k]
                IN  /\ sym.kind = "Unknown"
                    /\ sym.section_index = None
                    /\ sym.global = TRUE
                    /\ sym.size = 0
                    /\ src[1] \in {"export", "import"}
                    /\ src[1] = "export" =>
                          /\ sym.undefined = FALSE
                          /\ sym.name = file.pe.exports[src[2]].name
                          /\ sym.address = file.pe.exports[src[2]].rva
                    /\ src[1] = "import" =>
                          /\ sym.undefined = TRUE
                          /\ sym.address = 0
                          /\ file.pe.imports[src[2]].name.cow = "Borrowed" =>
                                sym.name = Some(file.pe.imports[src[2]].name.str)
                          /\ file.pe.imports[src[2]].name.cow = "Owned" =>
                                sym.name = None

C3_Witness ==
    /\ symOrigin = "dynamic_symbols"
    /\ Len(Emitted) = NumExports + NumImports
    /\ \E k \in 1..NumExports : file.pe.exports[k].name = None
    /\ \E k \in 1..NumExports : file.pe.exports[k].name = Some("Foo")
    /\ \E k \in 1..NumImports : file.pe.imports[k].name.cow = "Owned"
    /\ \E k \in 1..NumImports : file.pe.imports[k].name.cow = "Borrowed"

\* The image of scenario S4: exports Foo@0x2000 and Bar@0x2010, one import
\* Baz whose name is borrowed.
S4Exports == <<[name |-> Some("Foo"), rva |-> 8192], [name |-> Some("Bar"), rva |-> 8208]>>
S4Imports == <<[name |-> [cow |-> "Borrowed", str |-> "Baz"]]>>

\* The exported symbols that have a nonempty name and a nonzero address, in
\* table order.
RECURSIVE NamedExports(_)
NamedExports(exports) ==
    IF exports = <<>> THEN <<>>
    ELSE LET e == Head(exports)
             sym == [kind |-> "Unknown", section_index |-> None,
                     undefined |-> FALSE, global |-> TRUE, name |-> e.name,
                     address |-> e.rva, size |-> 0]
         IN  (IF e.name # None /\ e.name # Some("") /\ e.rva # 0
              THEN <<sym>> ELSE <<>>) \o NamedExports(Tail(exports))

\* C4 as stated: for the S4 image symbol_map().symbols is [Foo, Bar]; in
\* general symbol_map() holds, sorted ascending by address, the exported
\* symbols that pass the shared filter, the imports dropped.
C4_MapHoldsExports ==
    IsSome(symbolMap) =>
        /\ Unwrap(symbolMap).symbols = SortByAddress(NamedExports(file.pe.exports))
        /\ (file.pe.exports = S4Exports /\ file.pe.imports = S4Imports) =>
              Len(Unwrap(symbolMap).symbols) = 2

\* C4 amended: symbol_map() collects symbols(), the static symbols, of which
\* a PE image has none: symbol_map().symbols is empty for every image, the S4
\* image included, and no export or import appears in it; an iterator made by
\* symbols() returns none at once.
C4_MapIsEmpty ==
    /\ IsSome(symbolMap) => Unwrap(symbolMap).symbols = <<>>
    /\ symOrigin = "symbols" => \A k \in 1..Len(returned) : returned[k] = None

C4_Witness ==
    /\ IsSome(symbolMap)
    /\ file.pe.exports = S4Exports
    /\ file.pe.imports = S4Imports
    /\ symOrigin = "symbols"
    /\ Len(returned) >= 1

---------------------------------------------------------------------------
(* The segment and section iterations. *)

IterSectionPool ==
    {[name |-> NameOk(".text"), virtual_address |-> va, virtual_size |-> sz[1],
      pointer_to_raw_data |-> 0, size_of_raw_data |-> sz[2],
      characteristics |-> 32] :
        va \in {4096, 8192}, sz \in {<<2, 4>>, <<3, 1>>}}

InitIter ==
    /\ file \in {MakeFile(secs, <<>>, <<>>, oh) :
                    secs \in SeqsUpTo(IterSectionPool, MaxSections),
                    oh \in {None, Some([section_alignment |-> 512])}}
    /\ InitViews

\* The items of an iteration that has returned None, as an Option.
Finished(rets) ==
    IF rets # <<>> /\ rets[Len(rets)] = None
    THEN Some(SelectSeq(rets, IsSome))
    ELSE None

\* let it = file.segments();
Segments ==
    /\ segIter' = Some(PeFile_segments(file))
    /\ segReturned' = <<>>
    /\ segPrev' = IF IsSome(Finished(segReturned)) THEN Finished(segReturned) ELSE segPrev
    /\ UNCHANGED <<file, symVars, secIter, secReturned, secPrev, query>>

\* it.next(); on the segment iterator
SegmentNext ==
    /\ IsSome(segIter)
    /\ Len(segReturned) < Len(file.pe.sections) + MaxExtraNext
    /\ LET r == PeSegmentIterator_next(Unwrap(segIter))
       IN  /\ segIter' = Some(r.iter)
           /\ segReturned' = Append(segReturned, r.ret)
    /\ UNCHANGED <<file, symVars, segPrev, secIter, secReturned, secPrev, query>>

\* let it = file.sections();
Sections ==
    /\ secIter' = Some(PeFile_sections(file))
    /\ secReturned' = <<>>
    /\ secPrev' = IF IsSome(Finished(secReturned)) THEN Finished(secReturned) ELSE secPrev
    /\ UNCHANGED <<file, symVars, segIter, segReturned, segPrev, query>>

\* it.next(); on the section iterator
SectionNext ==
    /\ IsSome(secIter)
    /\ Len(secReturned) < Len(file.pe.sections) + MaxExtraNext
    /\ LET r == PeSectionIterator_next(Unwrap(secIter))
       IN  /\ secIter' = Some(r.iter)
           /\ secReturned' = Append(secReturned, r.ret)
    /\ UNCHANGED <<file, symVars, segIter, segReturned, segPrev, secPrev, query>>

NextIter == Segments \/ SegmentNext \/ Sections \/ SectionNext

SpecIter == InitIter /\ [][NextIter]_vars

\* The segments and the sections yielded so far.
SegItems == [k \in 1..Len(SelectSeq(segReturned, IsSome)) |->
                Unwrap(SelectSeq(segReturned, IsSome)[k])]
SecItems == [k \in 1..Len(SelectSeq(secReturned, IsSome)) |->
                Unwrap(SelectSeq(secReturned, IsSome)[k])]

\* C10: segments() and sections() yield the same number of items in the same
\* raw-table order, the i-th Segment and the i-th Section report the same
\* address(), size() and align(), and repeating either iteration on the same
\* image yields the same sequence.
C10_SegmentsMatchSections ==
    /\ \A i \in 1..Len(SegItems) : SegItems[i].section = i
    /\ \A i \in 1..Len(SecItems) : SecItems[i].section = i
    /\ \A i \in 1..Min(Len(SegItems), Len(SecItems)) :
          /\ PeSegment_address(file, SegItems[i]) = PeSection_address(file, SecItems[i])
          /\ PeSegment_size(file, SegItems[i]) = PeSection_size(file, SecItems[i])
          /\ PeSegment_align(file, SegItems[i]) = PeSection_align(file, SecItems[i])
    /\ (IsSome(Finished(segReturned)) /\ IsSome(Finished(secReturned))) =>
          Len(SegItems) = Len(SecItems)
    /\ (IsSome(segPrev) /\ IsSome(Finished(segReturned))) =>
          Finished(segReturned) = segPrev
    /\ (IsSome(secPrev) /\ IsSome(Finished(secReturned))) =>
          Finished(secReturned) = secPrev

C10_Witness ==
    /\ Len(file.pe.sections) >= 2
    /\ file.pe.sections[1] # file.pe.sections[2]
    /\ IsSome(segPrev)
    /\ IsSome(secPrev)
    /\ IsSome(Finished(segReturned))
    /\ IsSome(Finished(secReturned))
    /\ Len(SegItems) = Len(file.pe.sections)

---------------------------------------------------------------------------
(* The section lookups. *)

QuerySectionPool ==
    {[name |-> nm, virtual_address |-> va, virtual_size |-> 2,
      pointer_to_raw_data |-> 0, size_of_raw_data |-> 4,
      characteristics |-> 64] :
        nm \in {NameOk(".text"), NameOk(".data"), NameErr}, va \in {4096, 8192}}

QueryNames == {".text", ".data", ".bss", ""}

InitQuery ==
    /\ file \in {MakeFile(secs, <<>>, <<>>, None) :
                    secs \in SeqsUpTo(QuerySectionPool, MaxSections)}
    /\ InitViews

\* file.sections().nth(i)
SectionsNthCall ==
    /\ \E i \in 0..(MaxSections + 1) :
          query' = [op |-> "sections.nth", arg |-> <<i>>,
                    ret |-> SectionsNth(PeFile_sections(file), i)]
    /\ UNCHANGED <<file, symVars, secVars>>

\* file.section_by_index(SectionIndex(i))
SectionByIndex ==
    /\ \E i \in 0..(MaxSections + 1) :
          query' = [op |-> "section_by_index", arg |-> <<i>>,
                    ret |-> PeFile_section_by_index(file, i)]
    /\ UNCHANGED <<file, symVars, secVars>>

\* file.section_by_name(n)
SectionByName ==
    /\ \E n \in QueryNames :
          query' = [op |-> "section_by_name", arg |-> <<n>>,
                    ret |-> PeFile_section_by_name(file, n)]
    /\ UNCHANGED <<file, symVars, secVars>>

NextQuery == SectionsNthCall \/ SectionByIndex \/ SectionByName

SpecQuery == InitQuery /\ [][NextQuery]_vars

NumSections == Len(file.pe.sections)

\* The Section view of the table entry at 0-based position i.
SectionAt(i) == [index |-> i, section |-> i + 1]

\* C8: the i-th section yielded by sections(), i counted from 0, has
\* index() == i, and section_by_index(i) returns that same section for every
\* i < n and none for every i >= n.
C8_SectionByIndex ==
    /\ query.op = "sections.nth" =>
          IF query.arg[1] < NumSections
          THEN /\ query.ret = Some(SectionAt(query.arg[1]))
               /\ PeSection_index(file, Unwrap(query.ret)) = query.arg[1]
          ELSE query.ret = None
    /\ query.op = "section_by_index" =>
          /\ query.ret = SectionsNth(PeFile_sections(file), query.arg[1])
          /\ IF query.arg[1] < NumSections
             THEN query.ret = Some(SectionAt(query.arg[1]))
             ELSE query.ret = None

C8_Witness ==
    /\ query.op = "section_by_index"
    /\ NumSections >= 3
    /\ query.arg[1] = 2
    /\ IsSome(query.ret)
    /\ file.pe.sections[3] # file.pe.sections[1]

\* The 1-based positions of the table entries whose name decodes to n.
Named(n) ==
    {k \in 1..NumSections :
        file.pe.sections[k].name.ok /\ file.pe.sections[k].name.str = n}

\* C9: section_by_name(n) returns the first section in table order whose name
\* decodes and equals n, none when there is no such section; a section whose
\* name fails to decode is never returned and does not stop the scan.
C9_SectionByName ==
    query.op = "section_by_name" =>
        LET hits == Named(query.arg[1])
        IN  IF hits = {}
            THEN query.ret = None
            ELSE \E k \in hits :
                    /\ \A j \in hits : k <= j
                    /\ query.ret = Some(SectionAt(k - 1))

C9_Witness ==
    /\ query.op = "section_by_name"
    /\ NumSections >= 3
    /\ ~file.pe.sections[1].name.ok
    /\ Named(query.arg[1]) = {2, 3}
    /\ file.pe.sections[2] # file.pe.sections[3]
    /\ query.ret = Some(SectionAt(1))

---------------------------------------------------------------------------
(* The data accessors. *)

\* The sections whose data is read: base address 0 or 3, every pair of sizes,
\* and a file offset that keeps the bytes inside the buffer (2), that does so
\* for the smaller sizes only (4), or that lies past its end (7).
DataSectionPool ==
    {[name |-> NameOk(".data"), virtual_address |-> va, virtual_size |-> vs,
      pointer_to_raw_data |-> ptr, size_of_raw_data |-> rs,
      characteristics |-> 64] :
        va \in {0, 3}, vs \in 0..MaxRawSize, rs \in 0..MaxRawSize,
        ptr \in {2, 4, 7}}

ReqAddrs == (0..MaxReqAddr) \cup {MaxU64}
ReqLens == (0..MaxReqLen) \cup {MaxU64}

InitData ==
    /\ file \in {MakeFile(secs, <<>>, <<>>, None) :
                    secs \in {<<s>> : s \in DataSectionPool}}
    /\ InitViews

\* file.segments().nth(k).unwrap().data()
SegmentData ==
    /\ \E k \in 0..(Len(file.pe.sections) - 1) :
          query' = [op |-> "segment.data", arg |-> <<k>>,
                    ret |-> PeSegment_data(file,
                                Unwrap(SegmentsNth(PeFile_segments(file), k)))]
    /\ UNCHANGED <<file, symVars, secVars>>

\* file.sections().nth(k).unwrap().data()
SectionData ==
    /\ \E k \in 0..(Len(file.pe.sections) - 1) :
          query' = [op |-> "section.data", arg |-> <<k>>,
                    ret |-> PeSection_data(file,
                                Unwrap(SectionsNth(PeFile_sections(file), k)))]
    /\ UNCHANGED <<file, symVars, secVars>>

\* file.sections().nth(k).unwrap().uncompressed_data()
SectionUncompressedData ==
    /\ \E k \in 0..(Len(file.pe.sections) - 1) :
          query' = [op |-> "section.uncompressed_data", arg |-> <<k>>,
                    ret |-> PeSection_uncompressed_data(file,
                                Unwrap(SectionsNth(PeFile_sections(file), k)))]
    /\ UNCHANGED <<file, symVars, secVars>>

\* file.segments().nth(k).unwrap().data_range(addr, len)
SegmentDataRange ==
    /\ \E k \in 0..(Len(file.pe.sections) - 1), addr \in ReqAddrs, len \in ReqLens :
          query' = [op |-> "segment.data_range", arg |-> <<k, addr, len>>,
                    ret |-> PeSegment_data_range(file,
                                Unwrap(SegmentsNth(PeFile_segments(file), k)),
                                addr, len)]
    /\ UNCHANGED <<file, symVars, secVars>>

\* file.sections().nth(k).unwrap().data_range(addr, len)
SectionDataRange ==
    /\ \E k \in 0..(Len(file.pe.sections) - 1), addr \in ReqAddrs, len \in ReqLens :
          query' = [op |-> "section.data_range", arg |-> <<k, addr, len>>,
                    ret |-> PeSection_data_range(file,
                                Unwrap(SectionsNth(PeFile_sections(file), k)),
                                addr, len)]
    /\ UNCHANGED <<file, symVars, secVars>>

NextData ==
    \/ SegmentData
    \/ SectionData
    \/ SectionUncompressedData
    \/ SegmentDataRange
    \/ SectionDataRange

SpecData == InitData /\ [][NextData]_vars

\* The table entry a query was made on.
Queried == file.pe.sections[query.arg[1] + 1]

\* The length of the file-backed bytes of a table entry.
BackedLen(s) ==
    IF s.virtual_size <= s.size_of_raw_data THEN s.virtual_size ELSE s.size_of_raw_data

\* A valid image keeps a section's file-backed bytes inside the buffer.
ValidSection(s) == s.pointer_to_raw_data + BackedLen(s) <= Len(file.data)

\* The image bytes from pointer_to_raw_data on, BackedLen(s) of them.
BackedBytes(s) == [j \in 1..BackedLen(s) |-> file.data[s.pointer_to_raw_data + j]]

\* C5: for every Segment and Section of a valid image data() has length
\* min(virtual_size, size_of_raw_data) and is the image bytes from file offset
\* pointer_to_raw_data on; Section.uncompressed_data() returns the same bytes.
C5_DataIsBackedBytes ==
    /\ (query.op = "segment.data" /\ ValidSection(Queried)) =>
          /\ ~query.ret.panic
          /\ Len(query.ret.value) = BackedLen(Queried)
          /\ query.ret.value = BackedBytes(Queried)
    /\ (query.op \in {"section.data", "section.uncompressed_data"}
            /\ ValidSection(Queried)) =>
          /\ ~query.ret.panic
          /\ Len(query.ret.value.bytes) = BackedLen(Queried)
          /\ query.ret.value.bytes = BackedBytes(Queried)

C5_Witness ==
    /\ query.op = "section.uncompressed_data"
    /\ Queried.virtual_size = 2
    /\ Queried.size_of_raw_data = 3
    /\ Queried.pointer_to_raw_data = 2
    /\ ~query.ret.panic
    /\ query.ret.value.bytes = <<19, 20>>

---------------------------------------------------------------------------
(* The section kind. *)

\* The sum of a set of numbers.
RECURSIVE Sum(_)
Sum(S) == IF S = {} THEN 0 ELSE LET x == CHOOSE y \in S : TRUE IN x + Sum(S \ {x})

\* Characteristics: every combination of the four bits kind() tests and of
\* three it does not (TYPE_NO_PAD, MEM_SHARED, MEM_READ).
CharacteristicsPool ==
    {Sum(bits) : bits \in SUBSET {32, 64, 128, 536870912, 8, 268435456, 1073741824}}

InitKind ==
    /\ file \in {MakeFile(<<[TextSection EXCEPT !.characteristics = c]>>,
                          <<>>, <<>>, None) : c \in CharacteristicsPool}
    /\ InitViews

\* file.sections().nth(k).unwrap().kind()
SectionKind ==
    /\ \E k \in 0..(Len(file.pe.sections) - 1) :
          query' = [op |-> "section.kind", arg |-> <<k>>,
                    ret |-> PeSection_kind(file,
                                Unwrap(SectionsNth(PeFile_sections(file), k)))]
    /\ UNCHANGED <<file, symVars, secVars>>

\* file.sections().nth(k).unwrap().index()
SectionIndexCall ==
    /\ \E k \in 0..(Len(file.pe.sections) - 1) :
          query' = [op |-> "section.index", arg |-> <<k>>,
                    ret |-> PeSection_index(file,
                                Unwrap(SectionsNth(PeFile_sections(file), k)))]
    /\ UNCHANGED <<file, symVars, secVars>>

NextKind == SectionKind \/ SectionIndexCall

SpecKind == InitKind /\ [][NextKind]_vars

\* Whether the bit of value b (a power of two) is set in c.
HasBit(c, b) == (c \div b) % 2 = 1

\* C7: kind() is Text if CNT_CODE (0x20) or MEM_EXECUTE (0x20000000) is set,
\* else Data if CNT_INITIALIZED_DATA (0x40) is set, else UninitializedData if
\* CNT_UNINITIALIZED_DATA (0x80) is set, else Unknown, whatever other bits
\* are set.
C7_KindPrecedence ==
    query.op = "section.kind" =>
        LET c == Queried.characteristics
        IN  query.ret =
                IF HasBit(c, 32) \/ HasBit(c, 536870912) THEN "Text"
                ELSE IF HasBit(c, 64) THEN "Data"
                ELSE IF HasBit(c, 128) THEN "UninitializedData"
                ELSE "Unknown"

C7_Witness ==
    /\ query.op = "section.kind"
    /\ Queried.characteristics = 536870912 + 64 + 128 + 1073741824
    /\ query.ret = "Text"

====
